---------------------------- MODULE Spec2Model ----------------------------
(***************************************************************************)
(* Travel Drink Generator (src/travel_drink_app.py): the recommendation    *)
(* pipeline compute_plan -- generate_candidates, build_drink_profile,      *)
(* score_drink, the feasibility filter, the closest-fit fallback and       *)
(* build_plan -- over the module-level tables BASE_LIBRARY, MIXERS,        *)
(* PRESET_COCKTAILS and MOCKTAILS.                                         *)
(*                                                                         *)
(* Number representation.  The source computes in binary floating point;   *)
(* the model computes the same quantities exactly, in fixed point:         *)
(*   serving_oz, abv_pct, carbs_g, sugar_g, carbs_per_oz, max_kcal,        *)
(*   max_carbs and every score are held in TENTHS (1.5 oz is 15, 4.2 % is  *)
(*   42, a score of 96.2 is 962); a component amount is held in            *)
(*   HUNDREDTHS (0.25 oz is 25, one serving is 100); kcal values, which    *)
(*   the source rounds to whole numbers, are plain integers.               *)
(* Strings are TLA+ strings; where the source looks inside a string        *)
(* (substring tests, lower(), replace(), split()) the model works on the   *)
(* string's characters, given by the table Chars.                          *)
(***************************************************************************)
EXTENDS Integers, Sequences, FiniteSets, TLC

VARIABLES
  BASE_LIBRARY,      \* module global, line 121
  MIXERS,            \* module global, line 103
  PRESET_COCKTAILS,  \* module global, line 152
  MOCKTAILS,         \* module global, line 210
  pc,                \* the serial caller: "idle", "called" or "returned"
  prefs,             \* the preferences dict of the call in progress
  candidates,        \* local `candidates` of the call (line 454)
  profiles,          \* local `profiles` of the call (line 455)
  plan,              \* what compute_plan returned: None or Some(plan)
  t_pc,              \* per interleaved invocation: its position in compute_plan
  t_prefs,           \* per interleaved invocation: its prefs argument
  t_candidates,      \* per interleaved invocation: local `candidates`
  t_profiles,        \* per interleaved invocation: local `profiles`
  t_scored,          \* per interleaved invocation: local `scored`
  t_plan,            \* per interleaved invocation: the returned plan
  b_pc,              \* a caller of build_drink_profile: "idle", "called", "returned"
  b_recipe,          \* its recipe argument: None or Some(recipe)
  b_profile,         \* what build_drink_profile returned: None or Some(profile)
  m_pc,              \* main's position
  m_args,            \* main's parsed arguments and the NO_SERVE environment flag
  m_tried,           \* the servers main has tried, with how each ended
  m_exc,             \* the exception main let through: None or Some(name)
  m_offline,         \* how many times _write_offline_artifacts has run
  clock,             \* int(datetime.utcnow().timestamp()), in seconds
  _PDF_CACHE,        \* module global, line 689: key -> PDF bytes
  issued,            \* the answers of /api/generate that carry a pdf_url
  response           \* the last answer of /api/pdf/<key>: None or Some(answer)

globals == <<BASE_LIBRARY, MIXERS, PRESET_COCKTAILS, MOCKTAILS>>
serial  == <<pc, prefs, candidates, profiles, plan>>
threads == <<t_pc, t_prefs, t_candidates, t_profiles, t_scored, t_plan>>
builder == <<b_pc, b_recipe, b_profile>>
launcher == <<m_pc, m_args, m_tried, m_exc, m_offline>>
web     == <<clock, _PDF_CACHE, issued, response>>
vars    == <<BASE_LIBRARY, MIXERS, PRESET_COCKTAILS, MOCKTAILS,
             pc, prefs, candidates, profiles, plan,
             t_pc, t_prefs, t_candidates, t_profiles, t_scored, t_plan,
             b_pc, b_recipe, b_profile, m_pc, m_args, m_tried, m_exc, m_offline,
             clock, _PDF_CACHE, issued, response>>

\* Python's None and a present value, for Optional fields and results.
None == <<>>
Some(x) == <<x>>

\* The empty dict.
EmptyDict == [k \in {} |-> k]

\* dict.get(key, default)
Get(d, key, default) == IF key \in DOMAIN d THEN d[key] ELSE default

Max(a, b) == IF a >= b THEN a ELSE b
Min(a, b) == IF a <= b THEN a ELSE b

-----------------------------------------------------------------------------
(* String literals of the source, character by character.                  *)
Chars ==
  "" :> <<>> @@
  "Vodka (1.5 oz)" :> <<"V","o","d","k","a"," ","(","1",".","5"," ","o","z",")">> @@
  "Tequila blanco (1.5 oz)" :> <<"T","e","q","u","i","l","a"," ","b","l","a","n","c","o"," ","(","1",".","5"," ","o","z",")">> @@
  "Gin (1.5 oz)" :> <<"G","i","n"," ","(","1",".","5"," ","o","z",")">> @@
  "Whiskey/bourbon (1.5 oz)" :> <<"W","h","i","s","k","e","y","/","b","o","u","r","b","o","n"," ","(","1",".","5"," ","o","z",")">> @@
  "Rum white (1.5 oz)" :> <<"R","u","m"," ","w","h","i","t","e"," ","(","1",".","5"," ","o","z",")">> @@
  "Dry white wine (5 oz)" :> <<"D","r","y"," ","w","h","i","t","e"," ","w","i","n","e"," ","(","5"," ","o","z",")">> @@
  "Dry red wine (5 oz)" :> <<"D","r","y"," ","r","e","d"," ","w","i","n","e"," ","(","5"," ","o","z",")">> @@
  "Brut champagne (5 oz)" :> <<"B","r","u","t"," ","c","h","a","m","p","a","g","n","e"," ","(","5"," ","o","z",")">> @@
  "Light beer (12 oz)" :> <<"L","i","g","h","t"," ","b","e","e","r"," ","(","1","2"," ","o","z",")">> @@
  "Regular lager (12 oz)" :> <<"R","e","g","u","l","a","r"," ","l","a","g","e","r"," ","(","1","2"," ","o","z",")">> @@
  "Hard seltzer (12 oz)" :> <<"H","a","r","d"," ","s","e","l","t","z","e","r"," ","(","1","2"," ","o","z",")">> @@
  "soda water" :> <<"s","o","d","a"," ","w","a","t","e","r">> @@
  "diet tonic" :> <<"d","i","e","t"," ","t","o","n","i","c">> @@
  "diet cola" :> <<"d","i","e","t"," ","c","o","l","a">> @@
  "light tonic" :> <<"l","i","g","h","t"," ","t","o","n","i","c">> @@
  "tonic" :> <<"t","o","n","i","c">> @@
  "lime juice" :> <<"l","i","m","e"," ","j","u","i","c","e">> @@
  "lemon juice" :> <<"l","e","m","o","n"," ","j","u","i","c","e">> @@
  "orange juice" :> <<"o","r","a","n","g","e"," ","j","u","i","c","e">> @@
  "cranberry juice" :> <<"c","r","a","n","b","e","r","r","y"," ","j","u","i","c","e">> @@
  "pineapple juice" :> <<"p","i","n","e","a","p","p","l","e"," ","j","u","i","c","e">> @@
  "simple syrup" :> <<"s","i","m","p","l","e"," ","s","y","r","u","p">> @@
  "ginger beer" :> <<"g","i","n","g","e","r"," ","b","e","e","r">> @@
  "diet ginger beer" :> <<"d","i","e","t"," ","g","i","n","g","e","r"," ","b","e","e","r">> @@
  "coconut water" :> <<"c","o","c","o","n","u","t"," ","w","a","t","e","r">> @@
  "wine" :> <<"w","i","n","e">> @@
  "beer" :> <<"b","e","e","r">> @@
  "lager" :> <<"l","a","g","e","r">> @@
  "seltzer" :> <<"s","e","l","t","z","e","r">> @@
  "vodka" :> <<"v","o","d","k","a">> @@
  "tequila" :> <<"t","e","q","u","i","l","a">> @@
  "gin" :> <<"g","i","n">> @@
  "whiskey" :> <<"w","h","i","s","k","e","y">> @@
  "rum" :> <<"r","u","m">> @@
  "champagne" :> <<"c","h","a","m","p","a","g","n","e">> @@
  "Lime soda" :> <<"L","i","m","e"," ","s","o","d","a">> @@
  "Diet ginger fizz" :> <<"D","i","e","t"," ","g","i","n","g","e","r"," ","f","i","z","z">> @@
  "Vodka soda with lime" :> <<"V","o","d","k","a"," ","s","o","d","a"," ","w","i","t","h"," ","l","i","m","e">> @@
  "Tequila soda with lime" :> <<"T","e","q","u","i","l","a"," ","s","o","d","a"," ","w","i","t","h"," ","l","i","m","e">> @@
  "Gin and diet tonic" :> <<"G","i","n"," ","a","n","d"," ","d","i","e","t"," ","t","o","n","i","c">> @@
  "Whiskey neat" :> <<"W","h","i","s","k","e","y"," ","n","e","a","t">> @@
  "Skinny paloma" :> <<"S","k","i","n","n","y"," ","p","a","l","o","m","a">> @@
  "Skinny mule" :> <<"S","k","i","n","n","y"," ","m","u","l","e">> @@
  "Vodka neat" :> <<"V","o","d","k","a"," ","n","e","a","t">> @@
  "Vodka" :> <<"V","o","d","k","a">> @@
  "Tequila blanco neat" :> <<"T","e","q","u","i","l","a"," ","b","l","a","n","c","o"," ","n","e","a","t">> @@
  "Tequila blanco" :> <<"T","e","q","u","i","l","a"," ","b","l","a","n","c","o">> @@
  "Gin neat" :> <<"G","i","n"," ","n","e","a","t">> @@
  "Gin" :> <<"G","i","n">> @@
  "Whiskey/bourbon neat" :> <<"W","h","i","s","k","e","y","/","b","o","u","r","b","o","n"," ","n","e","a","t">> @@
  "Whiskey/bourbon" :> <<"W","h","i","s","k","e","y","/","b","o","u","r","b","o","n">> @@
  "Rum white neat" :> <<"R","u","m"," ","w","h","i","t","e"," ","n","e","a","t">> @@
  "Rum white" :> <<"R","u","m"," ","w","h","i","t","e">> @@
  " (1.5 oz)" :> <<" ","(","1",".","5"," ","o","z",")">> @@
  " neat" :> <<" ","n","e","a","t">> @@
  " (" :> <<" ","(">> @@
  " neat, one and a half ounces." :> <<" ","n","e","a","t",","," ","o","n","e"," ","a","n","d"," ","a"," ","h","a","l","f"," ","o","u","n","c","e","s",".">> @@
  "Soda water with fresh lime in a tall glass." :> <<"S","o","d","a"," ","w","a","t","e","r"," ","w","i","t","h"," ","f","r","e","s","h"," ","l","i","m","e"," ","i","n"," ","a"," ","t","a","l","l"," ","g","l","a","s","s",".">> @@
  "Diet ginger beer with a squeeze of lime." :> <<"D","i","e","t"," ","g","i","n","g","e","r"," ","b","e","e","r"," ","w","i","t","h"," ","a"," ","s","q","u","e","e","z","e"," ","o","f"," ","l","i","m","e",".">> @@
  "Vodka soda, tall glass, heavy ice, squeeze of fresh lime. No simple syrup." :> <<"V","o","d","k","a"," ","s","o","d","a",","," ","t","a","l","l"," ","g","l","a","s","s",","," ","h","e","a","v","y"," ","i","c","e",","," ","s","q","u","e","e","z","e"," ","o","f"," ","f","r","e","s","h"," ","l","i","m","e","."," ","N","o"," ","s","i","m","p","l","e"," ","s","y","r","u","p",".">> @@
  "Tequila soda, tall, fresh lime. No sweetener." :> <<"T","e","q","u","i","l","a"," ","s","o","d","a",","," ","t","a","l","l",","," ","f","r","e","s","h"," ","l","i","m","e","."," ","N","o"," ","s","w","e","e","t","e","n","e","r",".">> @@
  "Gin with diet tonic, tall. Lime wedge." :> <<"G","i","n"," ","w","i","t","h"," ","d","i","e","t"," ","t","o","n","i","c",","," ","t","a","l","l","."," ","L","i","m","e"," ","w","e","d","g","e",".">> @@
  "Whiskey neat, one and a half ounces." :> <<"W","h","i","s","k","e","y"," ","n","e","a","t",","," ","o","n","e"," ","a","n","d"," ","a"," ","h","a","l","f"," ","o","u","n","c","e","s",".">> @@
  "Tequila with soda and fresh lime in a salted glass. No grapefruit soda, no simple syrup." :> <<"T","e","q","u","i","l","a"," ","w","i","t","h"," ","s","o","d","a"," ","a","n","d"," ","f","r","e","s","h"," ","l","i","m","e"," ","i","n"," ","a"," ","s","a","l","t","e","d"," ","g","l","a","s","s","."," ","N","o"," ","g","r","a","p","e","f","r","u","i","t"," ","s","o","d","a",","," ","n","o"," ","s","i","m","p","l","e"," ","s","y","r","u","p",".">> @@
  "Vodka with diet ginger beer, splash of fresh lime. Copper mug if available." :> <<"V","o","d","k","a"," ","w","i","t","h"," ","d","i","e","t"," ","g","i","n","g","e","r"," ","b","e","e","r",","," ","s","p","l","a","s","h"," ","o","f"," ","f","r","e","s","h"," ","l","i","m","e","."," ","C","o","p","p","e","r"," ","m","u","g"," ","i","f"," ","a","v","a","i","l","a","b","l","e",".">> @@
  "A five ounce pour of brut champagne." :> <<"A"," ","f","i","v","e"," ","o","u","n","c","e"," ","p","o","u","r"," ","o","f"," ","b","r","u","t"," ","c","h","a","m","p","a","g","n","e",".">> @@
  "Five ounces of your driest white wine." :> <<"F","i","v","e"," ","o","u","n","c","e","s"," ","o","f"," ","y","o","u","r"," ","d","r","i","e","s","t"," ","w","h","i","t","e"," ","w","i","n","e",".">> @@
  "A twelve ounce hard seltzer." :> <<"A"," ","t","w","e","l","v","e"," ","o","u","n","c","e"," ","h","a","r","d"," ","s","e","l","t","z","e","r",".">> @@
  "Vodka, one and a half ounces." :> <<"V","o","d","k","a",","," ","o","n","e"," ","a","n","d"," ","a"," ","h","a","l","f"," ","o","u","n","c","e","s",".">> @@
  "Tequila blanco, one and a half ounces." :> <<"T","e","q","u","i","l","a"," ","b","l","a","n","c","o",","," ","o","n","e"," ","a","n","d"," ","a"," ","h","a","l","f"," ","o","u","n","c","e","s",".">> @@
  "Gin, one and a half ounces." :> <<"G","i","n",","," ","o","n","e"," ","a","n","d"," ","a"," ","h","a","l","f"," ","o","u","n","c","e","s",".">> @@
  "Whiskey pour, one and a half ounces." :> <<"W","h","i","s","k","e","y"," ","p","o","u","r",","," ","o","n","e"," ","a","n","d"," ","a"," ","h","a","l","f"," ","o","u","n","c","e","s",".">> @@
  "White rum, one and a half ounces." :> <<"W","h","i","t","e"," ","r","u","m",","," ","o","n","e"," ","a","n","d"," ","a"," ","h","a","l","f"," ","o","u","n","c","e","s",".">> @@
  "Five ounces of dry white wine." :> <<"F","i","v","e"," ","o","u","n","c","e","s"," ","o","f"," ","d","r","y"," ","w","h","i","t","e"," ","w","i","n","e",".">> @@
  "Five ounces of dry red wine." :> <<"F","i","v","e"," ","o","u","n","c","e","s"," ","o","f"," ","d","r","y"," ","r","e","d"," ","w","i","n","e",".">> @@
  "A twelve ounce light beer." :> <<"A"," ","t","w","e","l","v","e"," ","o","u","n","c","e"," ","l","i","g","h","t"," ","b","e","e","r",".">> @@
  "A twelve ounce lager." :> <<"A"," ","t","w","e","l","v","e"," ","o","u","n","c","e"," ","l","a","g","e","r",".">> @@
  "Vodka neat, one and a half ounces." :> <<"V","o","d","k","a"," ","n","e","a","t",","," ","o","n","e"," ","a","n","d"," ","a"," ","h","a","l","f"," ","o","u","n","c","e","s",".">> @@
  "Tequila blanco neat, one and a half ounces." :> <<"T","e","q","u","i","l","a"," ","b","l","a","n","c","o"," ","n","e","a","t",","," ","o","n","e"," ","a","n","d"," ","a"," ","h","a","l","f"," ","o","u","n","c","e","s",".">> @@
  "Gin neat, one and a half ounces." :> <<"G","i","n"," ","n","e","a","t",","," ","o","n","e"," ","a","n","d"," ","a"," ","h","a","l","f"," ","o","u","n","c","e","s",".">> @@
  "Whiskey/bourbon neat, one and a half ounces." :> <<"W","h","i","s","k","e","y","/","b","o","u","r","b","o","n"," ","n","e","a","t",","," ","o","n","e"," ","a","n","d"," ","a"," ","h","a","l","f"," ","o","u","n","c","e","s",".">> @@
  "Rum white neat, one and a half ounces." :> <<"R","u","m"," ","w","h","i","t","e"," ","n","e","a","t",","," ","o","n","e"," ","a","n","d"," ","a"," ","h","a","l","f"," ","o","u","n","c","e","s",".">> @@
  "airport" :> <<"a","i","r","p","o","r","t">> @@
  "Airport" :> <<"A","i","r","p","o","r","t">> @@
  "hotel" :> <<"h","o","t","e","l">> @@
  "restaurant" :> <<"r","e","s","t","a","u","r","a","n","t">> @@
  "grab-and-go" :> <<"g","r","a","b","-","a","n","d","-","g","o">> @@
  "simple" :> <<"s","i","m","p","l","e">> @@
  "celebration" :> <<"c","e","l","e","b","r","a","t","i","o","n">> @@
  "diet-mixer" :> <<"d","i","e","t","-","m","i","x","e","r">> @@
  "easy-order" :> <<"e","a","s","y","-","o","r","d","e","r">> @@
  "fast" :> <<"f","a","s","t">> @@
  "hydrate" :> <<"h","y","d","r","a","t","e">> @@
  "low-cal" :> <<"l","o","w","-","c","a","l">> @@
  "lowest-cal" :> <<"l","o","w","e","s","t","-","c","a","l">> @@
  "mexican" :> <<"m","e","x","i","c","a","n">> @@
  "moderate" :> <<"m","o","d","e","r","a","t","e">> @@
  "zero-cal" :> <<"z","e","r","o","-","c","a","l">> @@
  "zero-carb" :> <<"z","e","r","o","-","c","a","r","b">>

\* str.lower() on the letters that occur in the source's strings.
LowerOf ==
  "A" :> "a" @@ "B" :> "b" @@ "C" :> "c" @@ "D" :> "d" @@ "E" :> "e" @@
  "F" :> "f" @@ "G" :> "g" @@ "H" :> "h" @@ "I" :> "i" @@ "J" :> "j" @@
  "K" :> "k" @@ "L" :> "l" @@ "M" :> "m" @@ "N" :> "n" @@ "O" :> "o" @@
  "P" :> "p" @@ "Q" :> "q" @@ "R" :> "r" @@ "S" :> "s" @@ "T" :> "t" @@
  "U" :> "u" @@ "V" :> "v" @@ "W" :> "w" @@ "X" :> "x" @@ "Y" :> "y" @@
  "Z" :> "z"

Lower(cs) == [i \in 1..Len(cs) |-> IF cs[i] \in DOMAIN LowerOf THEN LowerOf[cs[i]] ELSE cs[i]]

\* `key in s` on character sequences.
IsSubstring(key, s) ==
  \E i \in 1..(Len(s) - Len(key) + 1) : SubSeq(s, i, i + Len(key) - 1) = key

\* str.find: the first index at which pat occurs in s, 0 when it does not.
Find(s, pat) ==
  LET hits == {i \in 1..(Len(s) - Len(pat) + 1) : SubSeq(s, i, i + Len(pat) - 1) = pat}
  IN  IF hits = {} THEN 0 ELSE CHOOSE i \in hits : \A j \in hits : i <= j

\* str.replace(old, new): every occurrence, left to right.
RECURSIVE Replace(_, _, _)
Replace(s, old, new) ==
  LET i == Find(s, old)
  IN  IF i = 0 \/ old = <<>> THEN s
      ELSE SubSeq(s, 1, i - 1) \o new \o Replace(SubSeq(s, i + Len(old), Len(s)), old, new)

\* str.split(sep)[0]
SplitHead(s, sep) ==
  LET i == Find(s, sep) IN IF i = 0 THEN s ELSE SubSeq(s, 1, i - 1)

\* The string whose characters are cs.
Str(cs) == CHOOSE s \in DOMAIN Chars : Chars[s] = cs

\* The strings the source searches for inside names: the category keywords of
\* matches_category and the venue tags a request may carry as pref_category.
SearchKeys ==
  {"wine", "beer", "lager", "seltzer", "vodka", "tequila", "gin", "whiskey", "rum",
   "champagne", "", "airport", "Airport", "hotel", "restaurant", "grab-and-go",
   "simple"}

\* `key in nm.lower()`, tabulated once for the strings of the source.
\* (Written as {kn : kn \in ...} so that the table is an enumerated set, built once.)
InLowerTable ==
  {kn : kn \in {x \in SearchKeys \X DOMAIN Chars :
                   IsSubstring(Chars[x[1]], Lower(Chars[x[2]]))}}

InLower(key, nm) == <<key, nm>> \in InLowerTable


-----------------------------------------------------------------------------
(* Nutrition and drink database                                            *)

ALC_DENSITY == 789          \* 0.789 g/mL, in thousandths
ALC_KCAL_PER_G == 7         \* 7.0 kcal/g
OZ_TO_ML == 295735          \* 29.5735 mL/oz, in ten-thousandths

\* The dataclass Drink with its field defaults; kw holds the keyword arguments.
Drink(name, category, serving_oz, abv_pct, kw) ==
  kw @@ [name |-> name, category |-> category, serving_oz |-> serving_oz,
         abv_pct |-> abv_pct, extra_cals |-> 0, carbs_g |-> None, sugar_g |-> None,
         gluten_free |-> TRUE, keto_friendly |-> TRUE, caffeine |-> FALSE,
         carbonation |-> FALSE, order_script |-> None]

MixersData ==
  [n \in {"soda water", "diet tonic"} |-> [kcal_per_oz |-> 0, carbs_per_oz |-> 0]] @@
  "diet cola"        :> [kcal_per_oz |-> 0,  carbs_per_oz |-> 0, caffeine |-> TRUE] @@
  "light tonic"      :> [kcal_per_oz |-> 5,  carbs_per_oz |-> 12] @@
  "tonic"            :> [kcal_per_oz |-> 10, carbs_per_oz |-> 25] @@
  "lime juice"       :> [kcal_per_oz |-> 8,  carbs_per_oz |-> 26] @@
  "lemon juice"      :> [kcal_per_oz |-> 7,  carbs_per_oz |-> 24] @@
  "orange juice"     :> [kcal_per_oz |-> 14, carbs_per_oz |-> 35] @@
  "cranberry juice"  :> [kcal_per_oz |-> 13, carbs_per_oz |-> 33] @@
  "pineapple juice"  :> [kcal_per_oz |-> 16, carbs_per_oz |-> 40] @@
  "simple syrup"     :> [kcal_per_oz |-> 50, carbs_per_oz |-> 125] @@
  "ginger beer"      :> [kcal_per_oz |-> 12, carbs_per_oz |-> 30, carbonation |-> TRUE] @@
  "diet ginger beer" :> [kcal_per_oz |-> 0,  carbs_per_oz |-> 0, carbonation |-> TRUE] @@
  "coconut water"    :> [kcal_per_oz |-> 6,  carbs_per_oz |-> 15]

BaseLibraryData == <<
  Drink("Vodka (1.5 oz)", "spirit", 15, 400,
        [gluten_free |-> TRUE, keto_friendly |-> TRUE, carbonation |-> FALSE,
         order_script |-> Some("Vodka, one and a half ounces.")]),
  Drink("Tequila blanco (1.5 oz)", "spirit", 15, 400,
        [gluten_free |-> TRUE, keto_friendly |-> TRUE,
         order_script |-> Some("Tequila blanco, one and a half ounces.")]),
  Drink("Gin (1.5 oz)", "spirit", 15, 400,
        [gluten_free |-> TRUE, keto_friendly |-> TRUE,
         order_script |-> Some("Gin, one and a half ounces.")]),
  Drink("Whiskey/bourbon (1.5 oz)", "spirit", 15, 400,
        [gluten_free |-> TRUE, keto_friendly |-> TRUE,
         order_script |-> Some("Whiskey pour, one and a half ounces.")]),
  Drink("Rum white (1.5 oz)", "spirit", 15, 400,
        [gluten_free |-> TRUE, keto_friendly |-> TRUE,
         order_script |-> Some("White rum, one and a half ounces.")]),
  Drink("Dry white wine (5 oz)", "wine", 50, 120,
        [extra_cals |-> 20, carbs_g |-> Some(30), sugar_g |-> Some(15),
         carbonation |-> FALSE,
         order_script |-> Some("Five ounces of dry white wine.")]),
  Drink("Dry red wine (5 oz)", "wine", 50, 130,
        [extra_cals |-> 22, carbs_g |-> Some(40), sugar_g |-> Some(10),
         carbonation |-> FALSE,
         order_script |-> Some("Five ounces of dry red wine.")]),
  Drink("Brut champagne (5 oz)", "wine", 50, 120,
        [extra_cals |-> 10, carbs_g |-> Some(20), sugar_g |-> Some(10),
         carbonation |-> TRUE,
         order_script |-> Some("A five ounce pour of brut champagne.")]),
  Drink("Light beer (12 oz)", "beer", 120, 42,
        [extra_cals |-> 20, carbs_g |-> Some(50), sugar_g |-> Some(0),
         gluten_free |-> FALSE, keto_friendly |-> FALSE, carbonation |-> TRUE,
         order_script |-> Some("A twelve ounce light beer.")]),
  Drink("Regular lager (12 oz)", "beer", 120, 50,
        [extra_cals |-> 60, carbs_g |-> Some(130), sugar_g |-> Some(0),
         gluten_free |-> FALSE, keto_friendly |-> FALSE, carbonation |-> TRUE,
         order_script |-> Some("A twelve ounce lager.")]),
  Drink("Hard seltzer (12 oz)", "seltzer", 120, 50,
        [extra_cals |-> 30, carbs_g |-> Some(20), sugar_g |-> Some(10),
         gluten_free |-> TRUE, keto_friendly |-> TRUE, carbonation |-> TRUE,
         order_script |-> Some("A twelve ounce hard seltzer.")])
>>

PresetCocktailsData == <<
  [name |-> "Vodka soda with lime",
   components |-> << <<"Vodka (1.5 oz)", 100>>, <<"soda water", 600>>, <<"lime juice", 25>> >>,
   tags |-> <<"lowest-cal", "easy-order", "airport">>,
   order |-> "Vodka soda, tall glass, heavy ice, squeeze of fresh lime. No simple syrup."],
  [name |-> "Tequila soda with lime",
   components |-> << <<"Tequila blanco (1.5 oz)", 100>>, <<"soda water", 600>>, <<"lime juice", 25>> >>,
   tags |-> <<"lowest-cal", "easy-order", "hotel">>,
   order |-> "Tequila soda, tall, fresh lime. No sweetener."],
  [name |-> "Gin and diet tonic",
   components |-> << <<"Gin (1.5 oz)", 100>>, <<"diet tonic", 600>> >>,
   tags |-> <<"low-cal", "diet-mixer">>,
   order |-> "Gin with diet tonic, tall. Lime wedge."],
  [name |-> "Whiskey neat",
   components |-> << <<"Whiskey/bourbon (1.5 oz)", 100>> >>,
   tags |-> <<"zero-carb", "fast">>,
   order |-> "Whiskey neat, one and a half ounces."],
  [name |-> "Skinny paloma",
   components |-> << <<"Tequila blanco (1.5 oz)", 100>>, <<"soda water", 400>>, <<"lime juice", 50>> >>,
   tags |-> <<"mexican", "restaurant">>,
   order |-> "Tequila with soda and fresh lime in a salted glass. No grapefruit soda, no simple syrup."],
  [name |-> "Skinny mule",
   components |-> << <<"Vodka (1.5 oz)", 100>>, <<"diet ginger beer", 600>>, <<"lime juice", 25>> >>,
   tags |-> <<"diet-mixer">>,
   order |-> "Vodka with diet ginger beer, splash of fresh lime. Copper mug if available."],
  [name |-> "Brut champagne (5 oz)",
   components |-> << <<"Brut champagne (5 oz)", 100>> >>,
   tags |-> <<"celebration", "moderate">>,
   order |-> "A five ounce pour of brut champagne."],
  [name |-> "Dry white wine (5 oz)",
   components |-> << <<"Dry white wine (5 oz)", 100>> >>,
   tags |-> <<"simple", "restaurant">>,
   order |-> "Five ounces of your driest white wine."],
  [name |-> "Hard seltzer (12 oz)",
   components |-> << <<"Hard seltzer (12 oz)", 100>> >>,
   tags |-> <<"grab-and-go">>,
   order |-> "A twelve ounce hard seltzer."]
>>

MocktailsData == <<
  [name |-> "Lime soda",
   components |-> << <<"soda water", 1000>>, <<"lime juice", 50>> >>,
   order |-> "Soda water with fresh lime in a tall glass.",
   tags |-> <<"zero-cal", "hydrate">>],
  [name |-> "Diet ginger fizz",
   components |-> << <<"diet ginger beer", 800>>, <<"lime juice", 25>> >>,
   order |-> "Diet ginger beer with a squeeze of lime.",
   tags |-> <<"zero-cal", "diet-mixer">>]
>>

-----------------------------------------------------------------------------
(* Core logic                                                              *)

\* round(x) of Python 3 for x = num/den >= 0 with the exact rest `more` > 0
\* meaning x is a little above num/den: nearest integer, exact ties to even.
RoundHalfEven(num, den, more) ==
  LET q == num \div den
      r == num % den
  IN  IF 2 * r > den \/ (2 * r = den /\ more) THEN q + 1
      ELSE IF 2 * r = den /\ q % 2 = 1 THEN q + 1
      ELSE q

\* round(x, 1) for x = thousandths/1000, in tenths.  A value that is a decimal
\* tie (x.x5) is no tie as a double: the library reaches one only as
\* 2.6 * 0.25, and the double 2.6 lies above 2.6, so the result goes up.
RoundTenths(thousandths) ==
  LET q == thousandths \div 100
      r == thousandths % 100
  IN  IF r >= 50 THEN q + 1 ELSE q

\* Drink.alcohol_kcal: serving_oz * OZ_TO_ML * (abv_pct/100) * ALC_DENSITY *
\* ALC_KCAL_PER_G, exactly: (micro + rest/100000) millionths of a kcal.  The
\* product is formed in two halves to stay inside 32-bit integers.
alcohol_kcal(d) ==
  LET x == d.serving_oz * d.abv_pct
      k == OZ_TO_ML * ALC_DENSITY * ALC_KCAL_PER_G
      lo == x * (k % 100000)
  IN  [micro |-> x * (k \div 100000) + lo \div 100000, rest |-> lo % 100000]

\* Drink.total_kcal: round(alcohol_kcal() + extra_cals)
total_kcal(d) ==
  LET a == alcohol_kcal(d)
  IN  RoundHalfEven(a.micro + d.extra_cals * 1000000, 1000000, a.rest > 0)

find_base(name) ==
  LET hits == {i \in 1..Len(BASE_LIBRARY) : BASE_LIBRARY[i].name = name}
  IN  IF hits = {} THEN None
      ELSE Some(BASE_LIBRARY[CHOOSE i \in hits : \A j \in hits : i <= j])

\* <<kcal in hundredths, carbs in thousandths>> of `units` hundredths of a
\* component: servings of a base drink, ounces of a mixer.
component_kcal_and_carbs(component_name, units) ==
  LET base == find_base(component_name)
  IN  IF base # None
      THEN <<total_kcal(base[1]) * units,
             (IF base[1].carbs_g = None THEN 0 ELSE base[1].carbs_g[1]) * units>>
      ELSE IF component_name \in DOMAIN MIXERS /\ DOMAIN MIXERS[component_name] # {}
      THEN <<MIXERS[component_name].kcal_per_oz * units,
             MIXERS[component_name].carbs_per_oz * units>>
      ELSE <<0, 0>>

\* ProfileStep with gluten_free and keto taken from the base ingredient alone,
\* whatever the components before it.
ProfileStepLastBaseWins(acc, comp) ==
  LET comp_name == comp[1]
      amount == comp[2]
      base == find_base(comp_name)
      mx == Get(MIXERS, comp_name, EmptyDict)
      kc == component_kcal_and_carbs(comp_name, amount)
      flags ==
        IF base # None
        THEN [total_volume_oz |-> acc.total_volume_oz + base[1].serving_oz * amount,
              alcohol |-> acc.alcohol + base[1].serving_oz * amount * base[1].abv_pct,
              carbonation |-> acc.carbonation \/ base[1].carbonation,
              caffeine |-> acc.caffeine \/ base[1].caffeine,
              gluten_free |-> base[1].gluten_free,
              keto |-> base[1].keto_friendly]
        ELSE [total_volume_oz |-> acc.total_volume_oz + 10 * amount,
              alcohol |-> acc.alcohol,
              carbonation |-> acc.carbonation \/ Get(mx, "carbonation", FALSE),
              caffeine |-> acc.caffeine \/ Get(mx, "caffeine", FALSE),
              gluten_free |-> acc.gluten_free,
              keto |-> acc.keto]
  IN  flags @@ [kcal |-> acc.kcal + kc[1], carbs |-> acc.carbs + kc[2]]

\* One pass of the loop of build_drink_profile over a component.  Volumes are
\* in thousandths of an ounce; alcohol is volume * abv_pct (OZ_TO_ML multiplies
\* both alcohol_ml and the total volume of the source and cancels in abv_pct).
ProfileStep(acc, comp) ==
  LET comp_name == comp[1]
      amount == comp[2]
      base == find_base(comp_name)
      mx == Get(MIXERS, comp_name, EmptyDict)
      kc == component_kcal_and_carbs(comp_name, amount)
      flags ==
        IF base # None
        THEN [total_volume_oz |-> acc.total_volume_oz + base[1].serving_oz * amount,
              alcohol |-> acc.alcohol + base[1].serving_oz * amount * base[1].abv_pct,
              carbonation |-> acc.carbonation \/ base[1].carbonation,
              caffeine |-> acc.caffeine \/ base[1].caffeine,
              gluten_free |-> acc.gluten_free /\ base[1].gluten_free,
              keto |-> acc.keto /\ base[1].keto_friendly]
        ELSE [total_volume_oz |-> acc.total_volume_oz + 10 * amount,
              alcohol |-> acc.alcohol,
              carbonation |-> acc.carbonation \/ Get(mx, "carbonation", FALSE),
              caffeine |-> acc.caffeine \/ Get(mx, "caffeine", FALSE),
              gluten_free |-> acc.gluten_free,
              keto |-> acc.keto]
  IN  flags @@ [kcal |-> acc.kcal + kc[1], carbs |-> acc.carbs + kc[2]]

RECURSIVE ProfileLoop(_, _)
ProfileLoop(acc, comps) ==
  IF comps = <<>> THEN acc ELSE ProfileLoop(ProfileStep(acc, Head(comps)), Tail(comps))

build_drink_profile(recipe) ==
  LET acc == ProfileLoop([kcal |-> 0, carbs |-> 0, total_volume_oz |-> 0, alcohol |-> 0,
                          carbonation |-> FALSE, caffeine |-> FALSE,
                          gluten_free |-> TRUE, keto |-> TRUE],
                         recipe.components)
      abv_pct == IF acc.total_volume_oz > 0
                 THEN RoundHalfEven(acc.alcohol, acc.total_volume_oz, FALSE)
                 ELSE 0
  IN  [name |-> recipe.name,
       kcal |-> RoundHalfEven(acc.kcal, 100, FALSE),
       carbs_g |-> RoundTenths(acc.carbs),
       abv_pct |-> abv_pct,
       order |-> Get(recipe, "order", recipe.name),
       tags |-> Get(recipe, "tags", <<>>),
       carbonation |-> acc.carbonation,
       caffeine |-> acc.caffeine,
       gluten_free |-> acc.gluten_free,
       keto |-> acc.keto]


\* The recipe generate_candidates synthesizes for a spirit of BASE_LIBRARY.
NeatRecipe(d) ==
  [name |-> Str(Replace(Chars[d.name], Chars[" (1.5 oz)"], Chars[" neat"])),
   components |-> << <<d.name, 100>> >>,
   tags |-> <<"zero-carb", "simple">>,
   order |-> Str(SplitHead(Chars[d.name], Chars[" ("]) \o Chars[" neat, one and a half ounces."])]

\* for d in BASE_LIBRARY: if d.category == "spirit": recipes.append(...)
RECURSIVE NeatRecipes(_)
NeatRecipes(lib) ==
  IF lib = <<>> THEN <<>>
  ELSE (IF Head(lib).category = "spirit" THEN <<NeatRecipe(Head(lib))>> ELSE <<>>)
       \o NeatRecipes(Tail(lib))

\* The recipe generate_candidates synthesizes for a wine, seltzer or beer.
DirectRecipe(d) ==
  [name |-> d.name,
   components |-> << <<d.name, 100>> >>,
   tags |-> <<d.category>>,
   order |-> IF d.order_script = None \/ d.order_script = Some("") THEN d.name
             ELSE d.order_script[1]]

\* for d in BASE_LIBRARY: if d.category in {"wine", "seltzer", "beer"}: ...
RECURSIVE DirectRecipes(_)
DirectRecipes(lib) ==
  IF lib = <<>> THEN <<>>
  ELSE (IF Head(lib).category \in {"wine", "seltzer", "beer"}
        THEN <<DirectRecipe(Head(lib))>> ELSE <<>>)
       \o DirectRecipes(Tail(lib))

\* any(key in nm.lower() for key in keys) for some component name nm of r
AnyNameHas(r, keys) ==
  \E i \in 1..Len(r.components) : \E key \in keys : InLower(key, r.components[i][1])

\* The conjuncts of each test are written with the cheap membership in cats
\* first; the source has them the other way round, and both are pure.
matches_categoryMocktailAny(r, include_categories) ==
  "any" \in include_categories \/ "mocktail" \in include_categories

matches_category(r, include_categories) ==
  LET cats == include_categories
  IN  \/ "any" \in cats
      \/ "wine" \in cats /\ AnyNameHas(r, {"wine"})
      \/ "beer" \in cats /\ AnyNameHas(r, {"beer", "lager"})
      \/ "seltzer" \in cats /\ AnyNameHas(r, {"seltzer"})
      \/ "spirit" \in cats /\ AnyNameHas(r, {"vodka", "tequila", "gin", "whiskey", "rum"})
      \/ "mocktail" \in cats /\ \E i \in 1..Len(MOCKTAILS) : MOCKTAILS[i].name = r.name
      \/ /\ "cocktail" \in cats
         /\ \E i \in 1..Len(r.components) : find_base(r.components[i][1]) # None
         /\ \E i \in 1..Len(r.components) : r.components[i][1] \in DOMAIN MIXERS

\* The unfiltered recipe list of generate_candidates, in its order.
AllRecipes(include_categories) ==
  (IF "mocktail" \in include_categories THEN MOCKTAILS ELSE <<>>)
  \o PRESET_COCKTAILS
  \o NeatRecipes(BASE_LIBRARY)
  \o DirectRecipes(BASE_LIBRARY)

generate_candidates(include_categories) ==
  SelectSeq(AllRecipes(include_categories), LAMBDA r : matches_category(r, include_categories))

\* score_drink, in tenths of a point.
score_drink(profile, p) ==
  LET kcal == profile.kcal
      carbs == profile.carbs_g
      max_kcal == Get(p, "max_kcal", 9990)
      max_carbs == Get(p, "max_carbs", 9990)
      pref_cat == Get(p, "pref_category", "")
  IN  1000
      - Max(0, kcal - 60)
      - carbs
      - (IF 10 * kcal > max_kcal THEN 2000 ELSE 0)
      - (IF carbs > max_carbs THEN 2000 ELSE 0)
      - (IF Get(p, "sugar_free_mixers", FALSE) /\ carbs > 30 THEN 500 ELSE 0)
      - (IF ~Get(p, "allow_caffeine", TRUE) /\ profile.caffeine THEN 400 ELSE 0)
      - (IF ~Get(p, "allow_carbonation", TRUE) /\ profile.carbonation THEN 400 ELSE 0)
      - (IF Get(p, "gluten_free_only", FALSE) /\ ~profile.gluten_free THEN 2000 ELSE 0)
      - (IF Get(p, "keto_only", FALSE) /\ ~profile.keto THEN 2000 ELSE 0)
      + (IF pref_cat # ""
            /\ \/ \E i \in 1..Len(profile.tags) : profile.tags[i] = pref_cat
               \/ InLower(pref_cat, profile.name)
         THEN 50 ELSE 0)

\* sorted(profiles, key=lambda p: -score_drink(p, prefs)): descending by score,
\* profiles of equal score in their original order (the sort is stable).
\* keyed pairs each profile with its score; values are the scores still to place.
RECURSIVE ByScoreDesc(_, _)
ByScoreDesc(keyed, values) ==
  IF values = {} THEN <<>>
  ELSE LET top == CHOOSE v \in values : \A w \in values : v >= w
       IN  SelectSeq(keyed, LAMBDA x : x[1] = top) \o ByScoreDesc(keyed, values \ {top})

RECURSIVE Keyed(_, _)
Keyed(ps, p) ==
  IF ps = <<>> THEN <<>>
  ELSE << <<score_drink(Head(ps), p), Head(ps)>> >> \o Keyed(Tail(ps), p)

RECURSIVE Second(_)
Second(pairs) == IF pairs = <<>> THEN <<>> ELSE <<Head(pairs)[2]>> \o Second(Tail(pairs))

\* SortedByScore leaving the profiles in candidate order.
SortedByScoreUnsorted(ps, p) == ps

SortedByScore(ps, p) ==
  LET keyed == Keyed(ps, p)
  IN  Second(ByScoreDesc(keyed, {keyed[i][1] : i \in 1..Len(keyed)}))

\* int(x) of Python for a number x held in tenths: truncation toward zero.
PyInt(tenths) == IF tenths >= 0 THEN tenths \div 10 ELSE 0 - ((0 - tenths) \div 10)

PACING_INSTRUCTION ==
  "Sip slowly for 45 to 60 minutes, pair with water, and add a pinch of salt if you sweat a lot."

RECOVERY == <<
  "500 to 750 ml water before bed, add electrolytes if you trained.",
  "Protein-forward breakfast, eggs or Greek yogurt, add fruit for potassium.",
  "Zone 2 walk for 20 to 30 minutes to feel normal again.",
  "Avoid driving, and never mix alcohol with sedatives." >>

\* n of build_plan: drink_count clamped to 1..4
DrinkCount(p) == Max(1, Min(4, Get(p, "drink_count", 1)))

\* s[:n]
Take(s, n) == SubSeq(s, 1, Min(n, Len(s)))

\* build_plan with drink_count clamped from below only.
build_planNoUpperClamp(selected, p, fallback_used, advice) ==
  LET n == Max(1, Get(p, "drink_count", 1))
  IN  [picks |-> Take(selected, n),
       pacing |-> [i \in 1..Min(4, n) |-> [slot |-> i, instruction |-> PACING_INSTRUCTION]],
       recovery |-> RECOVERY,
       fallback_used |-> fallback_used,
       advice |-> advice]

\* build_plan with one pacing entry per pick.
build_planPacingPerPick(selected, p, fallback_used, advice) ==
  LET n == DrinkCount(p)
  IN  [picks |-> Take(selected, n),
       pacing |-> [i \in 1..Len(Take(selected, n)) |->
                     [slot |-> i, instruction |-> PACING_INSTRUCTION]],
       recovery |-> RECOVERY,
       fallback_used |-> fallback_used,
       advice |-> advice]

build_plan(selected, p, fallback_used, advice) ==
  LET n == DrinkCount(p)
  IN  [picks |-> Take(selected, n),
       pacing |-> [i \in 1..n |-> [slot |-> i, instruction |-> PACING_INSTRUCTION]],
       recovery |-> RECOVERY,
       fallback_used |-> fallback_used,
       advice |-> advice]

FALLBACK_MESSAGE == "No exact matches. Showing closest-fit picks based on your limits."

\* The fixed suggestion strings of _fallback_suggestions, in its order.
SUGGESTIONS ==
  <<"Increase max calories to >= 90 kcal - most spirit + soda combos land 90-110 kcal.",
    "Allow up to 2-5 g carbs for dry wine or hard seltzer options.",
    "Enable carbonation or include spirits to avoid beer/seltzer conflicts.",
    "Gluten-free only with beer is restrictive - switch to spirits with soda or brut champagne.",
    "Keto + beer/wine is tough - prefer spirits with soda water.",
    "Toggle sugar-free mixers for big calorie savings (diet tonic, soda water).">>

\* _fallback_suggestions without the sugar-free-mixers suggestion.
_fallback_suggestionsFive(p, categories) ==
  LET cats == categories
      suggestions ==
        (IF PyInt(Get(p, "max_kcal", 9990)) < 90 THEN <<SUGGESTIONS[1]>> ELSE <<>>)
        \o (IF Get(p, "max_carbs", 9990) < 20 /\ ("wine" \in cats \/ "seltzer" \in cats)
            THEN <<SUGGESTIONS[2]>> ELSE <<>>)
        \o (IF ~Get(p, "allow_carbonation", TRUE) /\ ("beer" \in cats \/ "seltzer" \in cats)
            THEN <<SUGGESTIONS[3]>> ELSE <<>>)
        \o (IF Get(p, "gluten_free_only", FALSE) /\ "beer" \in cats
            THEN <<SUGGESTIONS[4]>> ELSE <<>>)
        \o (IF Get(p, "keto_only", FALSE) /\ ("beer" \in cats \/ "wine" \in cats)
            THEN <<SUGGESTIONS[5]>> ELSE <<>>)
  IN  [message |-> FALLBACK_MESSAGE, suggestions |-> Take(suggestions, 5)]

_fallback_suggestions(p, categories) ==
  LET cats == categories
      max_kcal == PyInt(Get(p, "max_kcal", 9990))
      max_carbs == Get(p, "max_carbs", 9990)
      allow_carb == Get(p, "allow_carbonation", TRUE)
      gf_only == Get(p, "gluten_free_only", FALSE)
      keto_only == Get(p, "keto_only", FALSE)
      suggestions ==
        (IF max_kcal < 90
         THEN <<"Increase max calories to >= 90 kcal - most spirit + soda combos land 90-110 kcal.">>
         ELSE <<>>)
        \o (IF max_carbs < 20 /\ ("wine" \in cats \/ "seltzer" \in cats)
            THEN <<"Allow up to 2-5 g carbs for dry wine or hard seltzer options.">>
            ELSE <<>>)
        \o (IF ~allow_carb /\ ("beer" \in cats \/ "seltzer" \in cats)
            THEN <<"Enable carbonation or include spirits to avoid beer/seltzer conflicts.">>
            ELSE <<>>)
        \o (IF gf_only /\ "beer" \in cats
            THEN <<"Gluten-free only with beer is restrictive - switch to spirits with soda or brut champagne.">>
            ELSE <<>>)
        \o (IF keto_only /\ ("beer" \in cats \/ "wine" \in cats)
            THEN <<"Keto + beer/wine is tough - prefer spirits with soda water.">>
            ELSE <<>>)
        \o (IF Get(p, "sugar_free_mixers", FALSE) = FALSE
            THEN <<"Toggle sugar-free mixers for big calorie savings (diet tonic, soda water).">>
            ELSE <<>>)
  IN  [message |-> FALLBACK_MESSAGE, suggestions |-> Take(suggestions, 5)]

\* categories = prefs.get("categories") or ["any"]; the list is used as a set
\* (membership tests and set(...)) throughout.
Categories(p) ==
  LET c == Get(p, "categories", {}) IN IF c = {} THEN {"any"} ELSE c

\* Feasible keeping only the profiles within 5 kcal of the limit.
FeasibleKcalWindow(profile, p) ==
  /\ profile.kcal <= PyInt(Get(p, "max_kcal", 9990))
  /\ profile.kcal > PyInt(Get(p, "max_kcal", 9990)) - 5
  /\ profile.carbs_g <= Get(p, "max_carbs", 9990)
  /\ ~Get(p, "gluten_free_only", FALSE) \/ profile.gluten_free
  /\ ~Get(p, "keto_only", FALSE) \/ profile.keto
  /\ Get(p, "allow_caffeine", TRUE) \/ ~profile.caffeine
  /\ Get(p, "allow_carbonation", TRUE) \/ ~profile.carbonation

\* Feasible with 130 kcal and 8.0 g as the limits of a request that has none.
FeasibleDefaults130(profile, p) ==
  /\ profile.kcal <= PyInt(Get(p, "max_kcal", 1300))
  /\ profile.carbs_g <= Get(p, "max_carbs", 80)
  /\ ~Get(p, "gluten_free_only", FALSE) \/ profile.gluten_free
  /\ ~Get(p, "keto_only", FALSE) \/ profile.keto
  /\ Get(p, "allow_caffeine", TRUE) \/ ~profile.caffeine
  /\ Get(p, "allow_carbonation", TRUE) \/ ~profile.carbonation

\* Feasible without its gluten test.
FeasibleNoGluten(profile, p) ==
  /\ profile.kcal <= PyInt(Get(p, "max_kcal", 9990))
  /\ profile.carbs_g <= Get(p, "max_carbs", 9990)
  /\ ~Get(p, "keto_only", FALSE) \/ profile.keto
  /\ Get(p, "allow_caffeine", TRUE) \/ ~profile.caffeine
  /\ Get(p, "allow_carbonation", TRUE) \/ ~profile.carbonation

\* Feasible without its keto test.
FeasibleNoKeto(profile, p) ==
  /\ profile.kcal <= PyInt(Get(p, "max_kcal", 9990))
  /\ profile.carbs_g <= Get(p, "max_carbs", 9990)
  /\ ~Get(p, "gluten_free_only", FALSE) \/ profile.gluten_free
  /\ Get(p, "allow_caffeine", TRUE) \/ ~profile.caffeine
  /\ Get(p, "allow_carbonation", TRUE) \/ ~profile.carbonation

\* The test of the feasibility loop of compute_plan on one profile.
Feasible(profile, p) ==
  /\ profile.kcal <= PyInt(Get(p, "max_kcal", 9990))
  /\ profile.carbs_g <= Get(p, "max_carbs", 9990)
  /\ ~Get(p, "gluten_free_only", FALSE) \/ profile.gluten_free
  /\ ~Get(p, "keto_only", FALSE) \/ profile.keto
  /\ Get(p, "allow_caffeine", TRUE) \/ ~profile.caffeine
  /\ Get(p, "allow_carbonation", TRUE) \/ ~profile.carbonation

\* profiles = [build_drink_profile(r) for r in candidates]
RECURSIVE Profiles(_)
Profiles(rs) ==
  IF rs = <<>> THEN <<>>
  ELSE <<build_drink_profile(Head(rs))>> \o Profiles(Tail(rs))

\* PlanOf taking "too few exact matches" for "no exact match".
PlanOfFewIsNone(scored, p) ==
  LET feasible == SelectSeq(scored, LAMBDA x : Feasible(x, p))
      fallback_used == (Len(feasible) < DrinkCount(p))
      selected == IF ~fallback_used THEN Take(feasible, 5) ELSE Take(scored, 5)
      advice == IF fallback_used THEN Some(_fallback_suggestions(p, Categories(p))) ELSE None
  IN  build_plan(selected, p, fallback_used, advice) @@ [pdf_url |-> None]

\* PlanOf without the closest-fit fallback: selected = feasible[:5] always.
PlanOfNoFallback(scored, p) ==
  LET feasible == SelectSeq(scored, LAMBDA x : Feasible(x, p))
      fallback_used == (feasible = <<>>)
      selected == Take(feasible, 5)
      advice == IF fallback_used THEN Some(_fallback_suggestions(p, Categories(p))) ELSE None
  IN  build_plan(selected, p, fallback_used, advice) @@ [pdf_url |-> None]

\* compute_plan from `scored` on: the feasibility loop, the fallback and build_plan.
PlanOf(scored, p) ==
  LET feasible == SelectSeq(scored, LAMBDA x : Feasible(x, p))
      fallback_used == (feasible = <<>>)
      selected == IF feasible # <<>> THEN Take(feasible, 5) ELSE Take(scored, 5)
      advice == IF fallback_used THEN Some(_fallback_suggestions(p, Categories(p))) ELSE None
  IN  build_plan(selected, p, fallback_used, advice) @@ [pdf_url |-> None]

compute_plan(p) ==
  PlanOf(SortedByScore(Profiles(generate_candidates(Categories(p))), p), p)

-----------------------------------------------------------------------------
(* Requests                                                                *)

MaxOptions == 3      \* a request supplies at most this many keys besides categories
MaxDrinkCount == 5   \* drink_count ranges over 0..MaxDrinkCount
NumThreads == 2      \* interleaved invocations of compute_plan

\* The category lists of requests: none, each category of the form alone, one
\* the code does not know ("cider"), and the combinations the self-tests and
\* the advice rules of _fallback_suggestions distinguish.
CategoryChoices ==
  {{}, {"any"}, {"spirit"}, {"cocktail"}, {"wine"}, {"beer"}, {"seltzer"}, {"mocktail"},
   {"cider"}, {"spirit", "cocktail"}, {"beer", "spirit", "cocktail"},
   {"wine", "seltzer"}, {"any", "mocktail"}}

OptionKeys ==
  {"max_kcal", "max_carbs", "drink_count", "sugar_free_mixers", "gluten_free_only",
   "keto_only", "allow_caffeine", "allow_carbonation", "pref_category", "spirits"}

\* The values a request gives a key.  A switch is given its non-default value:
\* giving it the default is, to every prefs.get(key, default) of the source,
\* the same as leaving it out.
OptionValues(key) ==
  CASE key = "max_kcal" -> {10, 600, 995}             \* 1, 60, 99.5 kcal
    [] key = "max_carbs" -> {0, 20}                   \* 0, 2.0 g
    [] key = "drink_count" -> 0..MaxDrinkCount
    [] key = "pref_category" -> {"airport", "Airport"}
    [] key = "spirits" -> {{"vodka"}}
    [] key \in {"allow_caffeine", "allow_carbonation"} -> {FALSE}
    [] OTHER -> {TRUE}

\* Every dict over exactly the keys K.
RECURSIVE DictsOver(_)
DictsOver(K) ==
  IF K = {} THEN {EmptyDict}
  ELSE LET k == CHOOSE x \in K : TRUE
       IN  {(k :> v) @@ d : v \in OptionValues(k), d \in DictsOver(K \ {k})}

KeyChoices == {K \in SUBSET OptionKeys : Cardinality(K) <= MaxOptions}

\* The request with the categories c (none when c is empty) and the options d.
Request(c, d) == (IF c = {} THEN EmptyDict ELSE [categories |-> c]) @@ d

\* The requests of two interleaved invocations.
ParPrefsChoices ==
  {EmptyDict,
   [categories |-> {"mocktail"}, drink_count |-> 2],
   [categories |-> {"beer"}, max_kcal |-> 600, gluten_free_only |-> TRUE],
   [categories |-> {"wine", "seltzer"}, allow_carbonation |-> FALSE]}

Threads == 1..NumThreads

-----------------------------------------------------------------------------
(* The program                                                             *)

Init ==
  /\ BASE_LIBRARY = BaseLibraryData
  /\ MIXERS = MixersData
  /\ PRESET_COCKTAILS = PresetCocktailsData
  /\ MOCKTAILS = MocktailsData
  /\ pc = "idle"
  /\ prefs = EmptyDict
  /\ candidates = <<>>
  /\ profiles = <<>>
  /\ plan = None
  /\ t_pc = [t \in Threads |-> "idle"]
  /\ t_prefs = [t \in Threads |-> EmptyDict]
  /\ t_candidates = [t \in Threads |-> <<>>]
  /\ t_profiles = [t \in Threads |-> <<>>]
  /\ t_scored = [t \in Threads |-> <<>>]
  /\ t_plan = [t \in Threads |-> None]
  /\ b_pc = "idle"
  /\ b_recipe = None
  /\ b_profile = None
  /\ m_pc = "idle"
  /\ m_args = EmptyDict
  /\ m_tried = <<>>
  /\ m_exc = None
  /\ m_offline = 0
  /\ clock = 0
  /\ _PDF_CACHE = EmptyDict
  /\ issued = {}
  /\ response = None

\* A caller hands compute_plan its preferences.
Call(p) ==
  /\ pc = "idle"
  /\ pc' = "called"
  /\ prefs' = p
  /\ UNCHANGED <<globals, builder, launcher, web, threads, candidates, profiles, plan>>

\* Compute keeping only the candidates with a component that names one of the
\* spirits of prefs.
ComputeSpirits ==
  /\ pc = "called"
  /\ pc' = "returned"
  /\ candidates' = SelectSeq(generate_candidates(Categories(prefs)),
                             LAMBDA r : Get(prefs, "spirits", {}) = {}
                                        \/ AnyNameHas(r, Get(prefs, "spirits", {})))
  /\ profiles' = Profiles(candidates')
  /\ plan' = Some(PlanOf(SortedByScore(profiles', prefs), prefs))
  /\ UNCHANGED <<globals, builder, launcher, web, threads, prefs>>

\* compute_plan(prefs), from its first line to its return (the server is
\* single-threaded: app.run(..., threaded=False)).
Compute ==
  /\ pc = "called"
  /\ pc' = "returned"
  /\ candidates' = generate_candidates(Categories(prefs))
  /\ profiles' = Profiles(candidates')
  /\ plan' = Some(PlanOf(SortedByScore(profiles', prefs), prefs))
  /\ UNCHANGED <<globals, builder, launcher, web, threads, prefs>>

\* The caller drops the plan; the next call may start.
Return ==
  /\ pc = "returned"
  /\ pc' = "idle"
  /\ prefs' = EmptyDict
  /\ candidates' = <<>>
  /\ profiles' = <<>>
  /\ plan' = None
  /\ UNCHANGED <<globals, builder, launcher, web, threads>>

Next ==
  \/ /\ pc = "idle"
     /\ \E c \in CategoryChoices : \E K \in KeyChoices : \E d \in DictsOver(K) :
          Call(Request(c, d))
  \/ Compute
  \/ Return

Spec == Init /\ [][Next]_vars

\* Invocations of compute_plan interleaved a statement at a time, as several
\* request threads of a WSGI host would run them.
TCall(t, p) ==
  /\ t_pc[t] = "idle"
  /\ t_pc' = [t_pc EXCEPT ![t] = "generate"]
  /\ t_prefs' = [t_prefs EXCEPT ![t] = p]
  /\ UNCHANGED <<globals, builder, launcher, web, serial, t_candidates, t_profiles, t_scored, t_plan>>

\* TGenerate with `recipes` an alias of PRESET_COCKTAILS, which the appends
\* of generate_candidates then grow.
TGenerateAliasing(t) ==
  /\ t_pc[t] = "generate"
  /\ PRESET_COCKTAILS' = PRESET_COCKTAILS \o NeatRecipes(BASE_LIBRARY) \o DirectRecipes(BASE_LIBRARY)
  /\ t_candidates' = [t_candidates EXCEPT ![t] =
        SelectSeq(PRESET_COCKTAILS', LAMBDA r : matches_category(r, Categories(t_prefs[t])))]
  /\ t_pc' = [t_pc EXCEPT ![t] = "profile"]
  /\ UNCHANGED <<BASE_LIBRARY, MIXERS, MOCKTAILS, builder, launcher, web, serial, t_prefs, t_profiles, t_scored, t_plan>>

TGenerate(t) ==
  /\ t_pc[t] = "generate"
  /\ t_candidates' = [t_candidates EXCEPT ![t] = generate_candidates(Categories(t_prefs[t]))]
  /\ t_pc' = [t_pc EXCEPT ![t] = "profile"]
  /\ UNCHANGED <<globals, builder, launcher, web, serial, t_prefs, t_profiles, t_scored, t_plan>>

TProfile(t) ==
  /\ t_pc[t] = "profile"
  /\ t_profiles' = [t_profiles EXCEPT ![t] = Profiles(t_candidates[t])]
  /\ t_pc' = [t_pc EXCEPT ![t] = "score"]
  /\ UNCHANGED <<globals, builder, launcher, web, serial, t_prefs, t_candidates, t_scored, t_plan>>

TScore(t) ==
  /\ t_pc[t] = "score"
  /\ t_scored' = [t_scored EXCEPT ![t] = SortedByScore(t_profiles[t], t_prefs[t])]
  /\ t_pc' = [t_pc EXCEPT ![t] = "select"]
  /\ UNCHANGED <<globals, builder, launcher, web, serial, t_prefs, t_candidates, t_profiles, t_plan>>

TSelect(t) ==
  /\ t_pc[t] = "select"
  /\ t_plan' = [t_plan EXCEPT ![t] = Some(PlanOf(t_scored[t], t_prefs[t]))]
  /\ t_pc' = [t_pc EXCEPT ![t] = "done"]
  /\ UNCHANGED <<globals, builder, launcher, web, serial, t_prefs, t_candidates, t_profiles, t_scored>>

TReturn(t) ==
  /\ t_pc[t] = "done"
  /\ t_pc' = [t_pc EXCEPT ![t] = "idle"]
  /\ t_prefs' = [t_prefs EXCEPT ![t] = EmptyDict]
  /\ t_candidates' = [t_candidates EXCEPT ![t] = <<>>]
  /\ t_profiles' = [t_profiles EXCEPT ![t] = <<>>]
  /\ t_scored' = [t_scored EXCEPT ![t] = <<>>]
  /\ t_plan' = [t_plan EXCEPT ![t] = None]
  /\ UNCHANGED <<globals, builder, launcher, web, serial>>

NextPar ==
  \E t \in Threads :
    \/ \E p \in ParPrefsChoices : TCall(t, p)
    \/ TGenerate(t)
    \/ TProfile(t)
    \/ TScore(t)
    \/ TSelect(t)
    \/ TReturn(t)

SpecPar == Init /\ [][NextPar]_vars


-----------------------------------------------------------------------------
(* compute_plan on the requests that set off the advice rules              *)

\* Optional(key, o): the dict with key |-> o[1], or the empty dict when o is None.
Optional(key, o) == IF o = None THEN EmptyDict ELSE (key :> o[1])

\* Requests over the keys _fallback_suggestions reads, with values on both
\* sides of its thresholds (89.9 and 90 kcal, 1.9 and 2.0 g).
AdviceRequests ==
  {Request(c, Optional("max_kcal", a) @@ Optional("max_carbs", b)
              @@ Optional("allow_carbonation", cb) @@ Optional("gluten_free_only", gf)
              @@ Optional("keto_only", kt) @@ Optional("sugar_free_mixers", sf)) :
     c \in {{"beer", "wine"}, {"beer", "seltzer"}, {"wine"}, {"spirit"}},
     a \in {None, <<10>>, <<899>>, <<900>>},
     b \in {None, <<19>>, <<20>>},
     cb \in {None, <<FALSE>>},
     gf \in {None, <<TRUE>>},
     kt \in {None, <<TRUE>>},
     sf \in {None, <<TRUE>>, <<FALSE>>}}

NextAdvice ==
  \/ /\ pc = "idle"
     /\ \E p \in AdviceRequests : Call(p)
  \/ Compute
  \/ Return

SpecAdvice == Init /\ [][NextAdvice]_vars

-----------------------------------------------------------------------------
(* build_drink_profile on recipes beyond the built-in ones                 *)

\* The names a component can carry: every mixer and every base ingredient.
ComponentNames == DOMAIN MIXERS \cup {BASE_LIBRARY[i].name : i \in 1..Len(BASE_LIBRARY)}

\* A caller hands build_drink_profile a recipe: a built-in or synthesized
\* recipe as it is, or with one more component (one serving, or one ounce).
BuildCall ==
  /\ b_pc = "idle"
  /\ \E i \in 1..Len(AllRecipes({"mocktail"})) :
       \E extra \in {None} \cup {Some(<<n, 100>>) : n \in ComponentNames} :
         b_recipe' = Some([AllRecipes({"mocktail"})[i] EXCEPT !.components = @ \o extra])
  /\ b_pc' = "called"
  /\ UNCHANGED <<globals, serial, threads, launcher, web, b_profile>>

\* build_drink_profile(recipe), from its first line to its return.
BuildCompute ==
  /\ b_pc = "called"
  /\ b_profile' = Some(build_drink_profile(b_recipe[1]))
  /\ b_pc' = "returned"
  /\ UNCHANGED <<globals, serial, threads, launcher, web, b_recipe>>

BuildReturn ==
  /\ b_pc = "returned"
  /\ b_pc' = "idle"
  /\ b_recipe' = None
  /\ b_profile' = None
  /\ UNCHANGED <<globals, serial, threads, launcher, web>>

NextBuild == BuildCall \/ BuildCompute \/ BuildReturn

SpecBuild == Init /\ [][NextBuild]_vars

-----------------------------------------------------------------------------
(* main: the three servers and the offline fallback                        *)

\* How a call of _serve_with_flask, _serve_with_werkzeug or _serve_with_wsgiref
\* can end: the server ran and stopped ("stopped", a normal return), or the
\* call raised.  ValueError stands for the exceptions that are Exception but
\* none of the three named ones (ImportError, a bad SAFE_PORT),
\* KeyboardInterrupt for those that, like SystemExit, are not Exception.
ServeOutcomes ==
  {"stopped", "SystemExit", "OSError", "RuntimeError", "ValueError", "KeyboardInterrupt"}

\* except (SystemExit, OSError, RuntimeError)
CaughtByNamed == {"SystemExit", "OSError", "RuntimeError"}

\* except Exception
CaughtByException == {"OSError", "RuntimeError", "ValueError"}

\* The order main tries the servers in.
SERVERS == <<"flask", "werkzeug", "wsgiref">>

\* args = parser.parse_args(), with os.environ.get("NO_SERVE") == "1".
MainStart ==
  /\ m_pc = "idle"
  /\ \E t, n, e \in BOOLEAN : m_args' = [test |-> t, no_serve |-> n, env_no_serve |-> e]
  /\ m_pc' = "parsed"
  /\ UNCHANGED <<globals, serial, threads, builder, web, m_tried, m_exc, m_offline>>

\* if args.test: print(json.dumps(run_selftests())); return
MainTest ==
  /\ m_pc = "parsed"
  /\ m_args.test
  /\ m_pc' = "returned"
  /\ UNCHANGED <<globals, serial, threads, builder, web, m_args, m_tried, m_exc, m_offline>>

\* if args.no_serve or NO_SERVE == "1": _write_offline_artifacts(); return
MainNoServe ==
  /\ m_pc = "parsed"
  /\ ~m_args.test
  /\ m_args.no_serve \/ m_args.env_no_serve
  /\ m_offline' = m_offline + 1
  /\ m_pc' = "returned"
  /\ UNCHANGED <<globals, serial, threads, builder, web, m_args, m_tried, m_exc>>

\* try: _serve_with_flask(host, port)
MainServe ==
  /\ m_pc = "parsed"
  /\ ~m_args.test
  /\ ~(m_args.no_serve \/ m_args.env_no_serve)
  /\ m_pc' = "flask"
  /\ UNCHANGED <<globals, serial, threads, builder, web, m_args, m_tried, m_exc, m_offline>>

\* The call of the server main is in ends, and main goes on: to the next
\* server or to the offline fallback when the handler around the call catches
\* what it raised, out of main with the exception when it does not, to the
\* end of main when the call returned.
ServerEnds(outcome) ==
  /\ m_pc \in {"flask", "werkzeug", "wsgiref"}
  /\ m_tried' = Append(m_tried, <<m_pc, outcome>>)
  /\ LET caught == IF m_pc = "wsgiref" THEN CaughtByException ELSE CaughtByNamed
         next == CASE m_pc = "flask" -> "werkzeug"
                   [] m_pc = "werkzeug" -> "wsgiref"
                   [] m_pc = "wsgiref" -> "offline"
     IN  /\ m_pc' = IF outcome = "stopped" THEN "returned"
                    ELSE IF outcome \in caught THEN next
                    ELSE "raised"
         /\ m_exc' = IF outcome # "stopped" /\ outcome \notin caught THEN Some(outcome) ELSE m_exc
  /\ UNCHANGED <<globals, serial, threads, builder, web, m_args, m_offline>>

\* print("[offline] Unable to start a server ..."); _write_offline_artifacts(); return
MainOffline ==
  /\ m_pc = "offline"
  /\ m_offline' = m_offline + 1
  /\ m_pc' = "returned"
  /\ UNCHANGED <<globals, serial, threads, builder, web, m_args, m_tried, m_exc>>

\* The process ends; the program can be run again.
MainExit ==
  /\ m_pc \in {"returned", "raised"}
  /\ m_pc' = "idle"
  /\ m_args' = EmptyDict
  /\ m_tried' = <<>>
  /\ m_exc' = None
  /\ m_offline' = 0
  /\ UNCHANGED <<globals, serial, threads, builder, web>>

NextMain ==
  \/ MainStart
  \/ MainTest
  \/ MainNoServe
  \/ MainServe
  \/ \E outcome \in ServeOutcomes : ServerEnds(outcome)
  \/ MainOffline
  \/ MainExit

SpecMain == Init /\ [][NextMain]_vars

-----------------------------------------------------------------------------
(* /api/generate with want_pdf and /api/pdf/<key>                          *)

MaxClock == 2   \* the clock runs over the seconds 0..MaxClock

\* The reportlab import succeeded: PDF export is available.
REPORTLAB_AVAILABLE == TRUE

\* What build_pdf renders of a plan: per pick its name, the seven table cells
\* and the order; the pacing instructions; the recovery lines.  Tags, slots,
\* fallback_used, advice and pdf_url are not rendered.
build_pdf(pl) ==
  [title |-> "Travel Drink Generator - Smart Picks",
   picks |-> [i \in 1..Len(pl.picks) |->
                [name |-> pl.picks[i].name,
                 cells |-> <<pl.picks[i].kcal, pl.picks[i].carbs_g, pl.picks[i].abv_pct,
                             pl.picks[i].gluten_free, pl.picks[i].keto,
                             pl.picks[i].caffeine, pl.picks[i].carbonation>>,
                 order |-> pl.picks[i].order]],
   pacing |-> [i \in 1..Len(pl.pacing) |-> pl.pacing[i].instruction],
   recovery |-> pl.recovery]

\* f"plan_{int(datetime.datetime.utcnow().timestamp())}.pdf"
KeyOf(seconds) == <<"plan_", seconds, ".pdf">>

\* f"/api/pdf/{key}", and the <key> the route '/api/pdf/<key>' takes from it.
UrlOf(key) == <<"/api/pdf/">> \o key
KeyIn(url) == Tail(url)

\* The JSON bodies posted to /api/generate.
PdfPrefsChoices ==
  {[want_pdf |-> TRUE],
   [categories |-> {"mocktail"}, drink_count |-> 2, want_pdf |-> TRUE],
   [categories |-> {"wine"}]}

\* A second passes.
Tick ==
  /\ clock < MaxClock
  /\ clock' = clock + 1
  /\ UNCHANGED <<globals, serial, threads, builder, launcher, _PDF_CACHE, issued, response>>

\* api_generate, from request.get_json to jsonify: the plan, and with want_pdf
\* the PDF stored under the key of the current second and its URL in the plan.
ApiGenerate(p) ==
  LET pl == compute_plan(p)
      key == KeyOf(clock)
  IN  /\ IF Get(p, "want_pdf", FALSE) /\ REPORTLAB_AVAILABLE
         THEN /\ _PDF_CACHE' = (key :> build_pdf(pl)) @@ _PDF_CACHE
              /\ issued' = issued \cup {[pl EXCEPT !.pdf_url = Some(UrlOf(key))]}
         ELSE UNCHANGED <<_PDF_CACHE, issued>>
      /\ response' = None
      /\ UNCHANGED <<globals, serial, threads, builder, launcher, clock>>

\* get_pdf(key): 404 when the cache has no bytes under key, else the bytes.
GetPdf(key) ==
  /\ response' = Some(IF key \in DOMAIN _PDF_CACHE
                      THEN [key |-> key, status |-> 200, body |-> Some(_PDF_CACHE[key])]
                      ELSE [key |-> key, status |-> 404, body |-> None])
  /\ UNCHANGED <<globals, serial, threads, builder, launcher, clock, _PDF_CACHE, issued>>

NextPdf ==
  \/ Tick
  \/ \E p \in PdfPrefsChoices : ApiGenerate(p)
  \/ \E s \in 0..MaxClock : GetPdf(KeyOf(s))

SpecPdf == Init /\ [][NextPdf]_vars

-----------------------------------------------------------------------------
(* Properties                                                              *)

Returned == pc = "returned"

\* A profile meets every hard constraint the request p states: the numeric
\* limits it supplies and the four switches (which default is used for a limit
\* that is not supplied is the subject of C4).
MeetsHardConstraints(x, p) ==
  /\ "max_kcal" \in DOMAIN p => 10 * x.kcal <= p.max_kcal
  /\ "max_carbs" \in DOMAIN p => x.carbs_g <= p.max_carbs
  /\ Get(p, "gluten_free_only", FALSE) => x.gluten_free
  /\ Get(p, "keto_only", FALSE) => x.keto
  /\ ~Get(p, "allow_caffeine", TRUE) => ~x.caffeine
  /\ ~Get(p, "allow_carbonation", TRUE) => ~x.carbonation

\* C1: when compute_plan returns fallback_used = false, every pick satisfies
\* all hard constraints of the request at once.
C1_PicksFeasible ==
  Returned /\ ~plan[1].fallback_used =>
    \A i \in 1..Len(plan[1].picks) : MeetsHardConstraints(plan[1].picks[i], prefs)

\* C1 witness: a plan without fallback, with two picks or more, for a request
\* whose limits and switches rule out some candidate.
C1_Witness ==
  /\ Returned
  /\ ~plan[1].fallback_used
  /\ Len(plan[1].picks) >= 2
  /\ "max_kcal" \in DOMAIN prefs
  /\ Get(prefs, "gluten_free_only", FALSE)
  /\ SelectSeq(profiles, LAMBDA x : ~MeetsHardConstraints(x, prefs)) # <<>>

\* C2: fallback_used is true exactly when no candidate profile satisfies all
\* hard constraints; the advice is present, with the fixed message, exactly
\* when fallback_used is true, and is None otherwise.
C2_FallbackIffNoneFeasible ==
  Returned =>
    /\ plan[1].fallback_used <=>
         SelectSeq(profiles, LAMBDA x : MeetsHardConstraints(x, prefs)) = <<>>
    /\ plan[1].fallback_used =>
         /\ plan[1].advice # None
         /\ plan[1].advice[1].message =
              "No exact matches. Showing closest-fit picks based on your limits."
    /\ ~plan[1].fallback_used => plan[1].advice = None

\* C2 witness: a request like the self-test's (beer, with a max_kcal and a
\* max_carbs that no candidate meets) returns a fallback plan with picks and
\* advice.
C2_Witness ==
  /\ Returned
  /\ Categories(prefs) = {"beer"}
  /\ "max_kcal" \in DOMAIN prefs /\ "max_carbs" \in DOMAIN prefs
  /\ plan[1].fallback_used
  /\ plan[1].picks # <<>>
  /\ plan[1].advice # None

\* C3: whenever the candidate pool of the request is non-empty, the plan has
\* at least one pick, feasible candidate or not.
C3_PicksNonEmpty ==
  Returned /\ candidates # <<>> => plan[1].picks # <<>>

\* C3 witness: no candidate is feasible, the pool is non-empty, and the
\* fallback supplies as many picks as were asked for.
C3_Witness ==
  /\ Returned
  /\ candidates # <<>>
  /\ SelectSeq(profiles, LAMBDA x : MeetsHardConstraints(x, prefs)) = <<>>
  /\ Get(prefs, "drink_count", 1) >= 2
  /\ Len(plan[1].picks) >= 2

Clamp(n, lo, hi) == Max(lo, Min(hi, n))

\* d without key.
Without(d, key) == [k \in DOMAIN d \ {key} |-> d[k]]

RecipesOf(pick) ==
  LET same == SelectSeq(candidates,
                        LAMBDA r : r.name = pick.name /\ build_drink_profile(r) = pick)
  IN  {same[i] : i \in 1..Len(same)}

C6_PicksEqualClamp ==
  Returned =>
    /\ Len(plan[1].picks) = Clamp(Get(prefs, "drink_count", 1), 1, 4)
    /\ Len(plan[1].picks) = Len(plan[1].pacing)

\* The number of profiles compute_plan selects from: the candidates that meet
\* every limit, with 999 for a limit that is not supplied, or, when there is
\* none, all the candidates.
SelectablePool ==
  LET q == prefs @@ [max_kcal |-> 9990, max_carbs |-> 9990]
      all == profiles
      ok == SelectSeq(all, LAMBDA x : MeetsHardConstraints(x, q))
  IN  IF ok # <<>> THEN Len(ok) ELSE Len(all)

\* C6 (amended): the number of picks is the smaller of drink_count clamped to
\* [1,4] and the number of profiles to select from (the feasible candidates,
\* or all candidates in fallback); pacing always has the clamped drink_count
\* entries, so picks are never more than pacing entries.
C6_PicksAtMostClamp ==
  Returned =>
    /\ Len(plan[1].picks) = Min(Clamp(Get(prefs, "drink_count", 1), 1, 4), SelectablePool)
    /\ Len(plan[1].picks) <= Len(plan[1].pacing)

\* C6 witness: a plan with picks, but fewer picks than pacing entries.
C6_Witness ==
  /\ Returned
  /\ plan[1].picks # <<>>
  /\ Len(plan[1].picks) < Len(plan[1].pacing)
  /\ Len(plan[1].picks) < Clamp(Get(prefs, "drink_count", 1), 1, 4)

\* C7: for every integer drink_count, below 1 and above 4 included, the plan
\* has clamp(drink_count, 1, 4) pacing entries with slots 1..n, and the
\* recovery list is the same non-empty fixed list for every request.
C7_PacingAndRecovery ==
  Returned =>
    /\ Len(plan[1].pacing) = Clamp(Get(prefs, "drink_count", 1), 1, 4)
    /\ \A i \in 1..Len(plan[1].pacing) : plan[1].pacing[i].slot = i
    /\ plan[1].recovery = RECOVERY
    /\ RECOVERY # <<>>

\* C7 witness: a drink_count above 4 gives four pacing entries, although the
\* plan has fewer picks.
C7_Witness ==
  /\ Returned
  /\ Get(prefs, "drink_count", 1) > 4
  /\ Len(plan[1].pacing) = 4
  /\ Len(plan[1].picks) < 4

\* C8 (as the specification states it): with gluten_free_only = true, for any
\* categories, limits and drink_count, every pick is gluten free.
C8_GlutenFreeAlways ==
  Returned /\ Get(prefs, "gluten_free_only", FALSE) =>
    \A i \in 1..Len(plan[1].picks) : plan[1].picks[i].gluten_free

\* C8 (amended): with gluten_free_only = true, every pick of a plan without
\* fallback is gluten free; a pick that is not gluten free is returned only
\* in a closest-fit plan (fallback_used = true, advice present), when no
\* candidate meets all limits.
C8_GlutenFreeUnlessFallback ==
  Returned /\ Get(prefs, "gluten_free_only", FALSE) =>
    \/ \A i \in 1..Len(plan[1].picks) : plan[1].picks[i].gluten_free
    \/ /\ plan[1].fallback_used
       /\ plan[1].advice # None
       /\ SelectSeq(profiles, LAMBDA x : MeetsHardConstraints(x, prefs)) = <<>>

\* C8 witness: gluten_free_only with beer requested, no fallback: the picks
\* are gluten free although a candidate with gluten was in the pool.
C8_Witness ==
  /\ Returned
  /\ Get(prefs, "gluten_free_only", FALSE)
  /\ "beer" \in Categories(prefs)
  /\ ~plan[1].fallback_used
  /\ plan[1].picks # <<>>
  /\ SelectSeq(profiles, LAMBDA x : ~x.gluten_free) # <<>>

\* C9: when the categories are exactly [mocktail], for every max_kcal and
\* drink_count the plan has at least one pick and every pick has abv_pct 0.
C9_MocktailsNoAlcohol ==
  Returned /\ Get(prefs, "categories", {}) = {"mocktail"} =>
    /\ plan[1].picks # <<>>
    /\ \A i \in 1..Len(plan[1].picks) : plan[1].picks[i].abv_pct = 0

\* C9 witness: categories [mocktail] with a max_kcal no mocktail meets: the
\* fallback still returns two picks.
C9_Witness ==
  /\ Returned
  /\ Get(prefs, "categories", {}) = {"mocktail"}
  /\ "max_kcal" \in DOMAIN prefs
  /\ plan[1].fallback_used
  /\ Len(plan[1].picks) >= 2

\* C10: compute_plan is a function of its preferences alone: an invocation
\* returns the plan of a lone invocation with the same preferences, two
\* invocations with the same preferences return the same plan, whatever ran
\* before or runs interleaved; no invocation changes BASE_LIBRARY, MIXERS,
\* PRESET_COCKTAILS, MOCKTAILS, or the preferences of a caller.
C10_Deterministic ==
  /\ [](/\ BASE_LIBRARY = BaseLibraryData
        /\ MIXERS = MixersData
        /\ PRESET_COCKTAILS = PresetCocktailsData
        /\ MOCKTAILS = MocktailsData
        /\ \A t \in Threads : t_pc[t] = "done" =>
             /\ t_plan[t] = Some(compute_plan(t_prefs[t]))
             /\ \A u \in Threads :
                  t_pc[u] = "done" /\ t_prefs[u] = t_prefs[t] => t_plan[u] = t_plan[t])
  /\ [][\A t \in Threads :
          /\ t_pc[t] # "idle" /\ t_pc'[t] # "idle" => t_prefs'[t] = t_prefs[t]
          /\ t_pc[t] = "done" => t_plan'[t] \in {t_plan[t], None}]_vars

\* C10 witness: two invocations with the same preferences have both returned,
\* one of them after the other had started.
C10_Witness ==
  /\ \A t \in Threads : t_pc[t] = "done"
  /\ \A t, u \in Threads : t_prefs[t] = t_prefs[u]
  /\ \A t \in Threads : "categories" \in DOMAIN t_prefs[t] /\ t_plan[t][1].picks # <<>>

\* Limits max_kcal is raised to, in tenths of a kcal.
HigherKcal == {600, 995, 1005, 1300, 1600, 9990}

\* C11: for two requests that differ only in max_kcal, A < B, every profile
\* that passes the feasibility filter under A passes it under B.
C11_FeasibleMonotone ==
  Returned /\ "max_kcal" \in DOMAIN prefs =>
    \A B \in HigherKcal : prefs.max_kcal < B =>
      \A i \in 1..Len(profiles) :
        Feasible(profiles[i], prefs) => Feasible(profiles[i], [prefs EXCEPT !.max_kcal = B])

\* C11 witness: a request with a feasible profile, and a higher max_kcal under
\* which a profile that was not feasible becomes feasible.
C11_Witness ==
  /\ Returned
  /\ "max_kcal" \in DOMAIN prefs
  /\ \E i \in 1..Len(profiles) : Feasible(profiles[i], prefs)
  /\ \E B \in HigherKcal : \E j \in 1..Len(profiles) :
       /\ prefs.max_kcal < B
       /\ ~Feasible(profiles[j], prefs)
       /\ Feasible(profiles[j], [prefs EXCEPT !.max_kcal = B])

\* The selection pool of the request, in candidate-generation order: the
\* profiles that meet every limit (999 for a limit not supplied) or, when
\* there is none, all the candidate profiles.
SelectionPool ==
  LET q == prefs @@ [max_kcal |-> 9990, max_carbs |-> 9990]
      ok == SelectSeq(profiles, LAMBDA x : MeetsHardConstraints(x, q))
  IN  IF ok # <<>> THEN ok ELSE profiles

\* C12: the picks are the first clamp(drink_count,1,4) entries of the
\* selection pool in non-increasing score order, equal scores in
\* candidate-generation order; no pool member left out has a strictly higher
\* score than a pick.
C12_PicksTopOfPool ==
  Returned =>
    LET pool == SelectionPool
        k == Keyed(pool, prefs)
        m == Len(pool)
        n == Clamp(Get(prefs, "drink_count", 1), 1, 4)
        Before(j, i) == k[j][1] > k[i][1] \/ (k[j][1] = k[i][1] /\ j < i)
        Pos(i) == 1 + Cardinality({j \in 1..m : Before(j, i)})
    IN  /\ Len(plan[1].picks) = Min(n, m)
        /\ \A i \in 1..m :
             IF Pos(i) <= n
             THEN plan[1].picks[Pos(i)] = pool[i]
             ELSE \A j \in 1..Len(plan[1].picks) :
                    k[i][1] <= score_drink(plan[1].picks[j], prefs)

\* C12 witness: a plan of two picks or more whose pool is not in score order,
\* with two pool members of equal score of which only the earlier is picked.
C12_Witness ==
  /\ Returned
  /\ Len(plan[1].picks) >= 2
  /\ LET pool == SelectionPool
         k == Keyed(pool, prefs)
     IN  /\ \E i, j \in 1..Len(pool) : i < j /\ k[i][1] < k[j][1]
         /\ \E i, j \in 1..Len(pool) :
              /\ i < j /\ k[i][1] = k[j][1]
              /\ pool[i] = plan[1].picks[Len(plan[1].picks)]
              /\ \A h \in 1..Len(plan[1].picks) : plan[1].picks[h] # pool[j]

\* C13 (as the specification states it): when the categories are exactly
\* [wine], generate_candidates keeps every recipe with a component whose name
\* contains "wine" or "champagne", so the Brut champagne recipes are candidates.
C13_WineKeepsChampagne ==
  Returned /\ Get(prefs, "categories", {}) = {"wine"} =>
    LET recipes == AllRecipes({"wine"})
    IN  /\ \A i \in 1..Len(recipes) :
             AnyNameHas(recipes[i], {"wine", "champagne"}) =>
               \E j \in 1..Len(candidates) : candidates[j] = recipes[i]
        /\ \E j \in 1..Len(candidates) : InLower("champagne", candidates[j].name)

\* The subsequence of SUGGESTIONS at the positions whose condition holds.
RECURSIVE Holding(_, _)
Holding(conds, i) ==
  IF i > Len(conds) THEN <<>>
  ELSE (IF conds[i] THEN <<SUGGESTIONS[i]>> ELSE <<>>) \o Holding(conds, i + 1)

\* The five conditions the specification lists, on the request.
FiveConditions ==
  LET cats == Categories(prefs)
  IN  << Get(prefs, "max_kcal", 9990) < 900,
         Get(prefs, "max_carbs", 9990) < 20 /\ ("wine" \in cats \/ "seltzer" \in cats),
         ~Get(prefs, "allow_carbonation", TRUE) /\ ("beer" \in cats \/ "seltzer" \in cats),
         Get(prefs, "gluten_free_only", FALSE) /\ "beer" \in cats,
         Get(prefs, "keto_only", FALSE) /\ ("beer" \in cats \/ "wine" \in cats) >>

\* C14 (as the specification states it): in fallback the suggestions are
\* exactly the fixed strings of the holding conditions among the five, in
\* order, and nothing else; never more than 5.
C14_FiveSuggestions ==
  Returned /\ plan[1].fallback_used =>
    /\ plan[1].advice[1].suggestions = Holding(FiveConditions, 1)
    /\ Len(plan[1].advice[1].suggestions) <= 5

\* C14 (amended): there is a sixth condition, sugar_free_mixers absent or
\* false, with its own fixed string after the five; the suggestions are the
\* strings of the holding conditions among the six, in order, cut to the
\* first 5.
C14_SixSuggestionsCut ==
  Returned /\ plan[1].fallback_used =>
    /\ plan[1].advice[1].suggestions =
         Take(Holding(FiveConditions \o <<~Get(prefs, "sugar_free_mixers", FALSE)>>, 1), 5)
    /\ Len(plan[1].advice[1].suggestions) <= 5

\* C14 witness: a fallback plan for a request under which all six conditions
\* hold: five suggestions, the sugar-free-mixers one cut off.
C14_Witness ==
  /\ Returned
  /\ plan[1].fallback_used
  /\ \A i \in 1..5 : FiveConditions[i]
  /\ ~Get(prefs, "sugar_free_mixers", FALSE)
  /\ plan[1].advice[1].suggestions = SubSeq(SUGGESTIONS, 1, 5)

\* pref names the profile x when compared case-insensitively: it equals one
\* of x's tags or occurs in x's name.
NamesCI(pref, x) ==
  \/ \E i \in 1..Len(x.tags) : Lower(Chars[x.tags[i]]) = Lower(Chars[pref])
  \/ IsSubstring(Lower(Chars[pref]), Lower(Chars[x.name]))

\* C15 (as the specification states it): score_drink adds the +5 nudge
\* whenever pref_category is non-empty and, compared case-insensitively,
\* equals a tag of the profile or occurs in its name, and adds nothing
\* otherwise; so "Airport" and "airport" give every profile the same score.
C15_NudgeCaseInsensitive ==
  Returned /\ Get(prefs, "pref_category", "") # "" =>
    \A i \in 1..Len(profiles) :
      /\ score_drink(profiles[i], prefs) - score_drink(profiles[i], Without(prefs, "pref_category"))
           = IF NamesCI(prefs.pref_category, profiles[i]) THEN 50 ELSE 0
      /\ score_drink(profiles[i], [prefs EXCEPT !.pref_category = "Airport"])
           = score_drink(profiles[i], [prefs EXCEPT !.pref_category = "airport"])

\* Quantities of the added component, in hundredths (0.25, 1.0, 4.0).
UnknownAmounts == {25, 100, 400}

\* The recipe r with one more component, of the given name and quantity.
WithComponent(r, name, amount) ==
  [r EXCEPT !.components = @ \o << <<name, amount>> >>]

\* C16 (as the specification states it): a component that is neither a base
\* ingredient nor a mixer is ignored by build_drink_profile: adding one, with
\* any quantity, leaves every field of the profile unchanged.
C16_UnknownComponentIgnored ==
  Returned =>
    \A i \in 1..Len(candidates) : \A q \in UnknownAmounts :
      /\ find_base("Crushed ice") = None
      /\ "Crushed ice" \notin DOMAIN MIXERS
      /\ build_drink_profile(WithComponent(candidates[i], "Crushed ice", q)) = profiles[i]

\* The base ingredients among the components of recipe r.
BasesOf(r) ==
  {find_base(r.components[i][1])[1] :
     i \in {j \in 1..Len(r.components) : find_base(r.components[j][1]) # None}}

\* The mixers among the components of recipe r, as their MIXERS entries.
MixersOf(r) ==
  {MIXERS[r.components[i][1]] :
     i \in {j \in 1..Len(r.components) :
               find_base(r.components[j][1]) = None /\ r.components[j][1] \in DOMAIN MIXERS}}

\* C17: the profile's carbonation and caffeine are true iff some component,
\* base ingredient or mixer, carries the flag; gluten_free and keto are true
\* iff every base-ingredient component carries the flag; mixers never change
\* these two, and a recipe with no base ingredient is gluten_free and keto.
C17_Flags ==
  b_pc = "returned" =>
    LET r == b_recipe[1]
        x == b_profile[1]
        Carries(flag) ==
          (\E d \in BasesOf(r) : d[flag]) \/ (\E mx \in MixersOf(r) : Get(mx, flag, FALSE))
    IN  /\ x.carbonation <=> Carries("carbonation")
        /\ x.caffeine <=> Carries("caffeine")
        /\ x.gluten_free <=> (\A d \in BasesOf(r) : d.gluten_free)
        /\ x.keto <=> (\A d \in BasesOf(r) : d.keto_friendly)
        /\ BasesOf(r) = {} => x.gluten_free /\ x.keto

\* C17 witness: a recipe of a base ingredient with gluten followed by one
\* without: the profile is not gluten free.
C17_Witness ==
  /\ b_pc = "returned"
  /\ Len(b_recipe[1].components) = 2
  /\ find_base(b_recipe[1].components[1][1]) # None
  /\ find_base(b_recipe[1].components[2][1]) # None
  /\ ~find_base(b_recipe[1].components[1][1])[1].gluten_free
  /\ find_base(b_recipe[1].components[2][1])[1].gluten_free
  /\ ~b_profile[1].gluten_free

\* C18 (as the specification states it): without --test or --no-serve, main
\* tries Flask, then Werkzeug, then wsgiref, each only after the one before
\* failed; when all three failed to start, with SystemExit, OSError or
\* RuntimeError at any stage, main goes on to write the offline artifacts,
\* once, and returns normally: it lets no SystemExit or other exception through.
C18_OfflineAfterThreeFailures ==
  /\ \A i \in 1..Len(m_tried) :
       /\ m_tried[i][1] = SERVERS[i]
       /\ i > 1 => m_tried[i - 1][2] \in {"SystemExit", "OSError", "RuntimeError", "ValueError"}
  /\ (Len(m_tried) = 3 /\ \A i \in 1..3 : m_tried[i][2] \in {"SystemExit", "OSError", "RuntimeError"}) =>
       /\ m_pc \in {"offline", "returned"}
       /\ m_exc = None
       /\ m_pc = "returned" => m_offline = 1

\* C19 (as the specification states it): for any sequence of /api/generate
\* requests with want_pdf = true, several in one clock second included, the
\* bytes behind every returned pdf_url stay those of the PDF built from the
\* plan of the request that returned it, and a later GET of the URL answers
\* 200 with them; a later request never replaces or removes them.
C19_PdfUrlKeepsItsPlan ==
  \A a \in issued :
    /\ KeyIn(a.pdf_url[1]) \in DOMAIN _PDF_CACHE
    /\ _PDF_CACHE[KeyIn(a.pdf_url[1])] = build_pdf(a)
    /\ response # None /\ response[1].key = KeyIn(a.pdf_url[1]) =>
         response[1].status = 200 /\ response[1].body = Some(build_pdf(a))

\* C20 (as the specification states it): the picks of a returned plan have
\* pairwise distinct names; no drink is listed twice in one plan.
C20_PickNamesDistinct ==
  Returned =>
    \A i, j \in 1..Len(plan[1].picks) :
      i # j => plan[1].picks[i].name # plan[1].picks[j].name

\* C21 (as the specification states it): when the categories are exactly
\* [beer], every recipe generate_candidates returns, and so every pick, has a
\* base-ingredient component of category beer; a mixer whose name contains
\* "beer" never admits a recipe.
C21_BeerOnlyByBase ==
  Returned /\ Get(prefs, "categories", {}) = {"beer"} =>
    /\ \A j \in 1..Len(candidates) :
         \E d \in BasesOf(candidates[j]) : d.category = "beer"
    /\ ~plan[1].fallback_used =>
         \A i \in 1..Len(plan[1].picks) :
           \E j \in 1..Len(candidates) :
             /\ candidates[j].name = plan[1].picks[i].name
             /\ \E d \in BasesOf(candidates[j]) : d.category = "beer"
=============================================================================
